---- MODULE Spec2Model ----
(***************************************************************************)
(* The referral workflow of agent_app: process_referral builds the initial *)
(* AgentState and runs the LangGraph workflow generator -> validator ->     *)
(* {poster | fixer | logger}, fixer -> validator, poster -> {logger | END}, *)
(* logger -> END.  Every node writes to the SQLite audit log through        *)
(* AuditLogger.log_operation.                                               *)
(*                                                                         *)
(* JSON values are abstracted to the finite alphabets below; a Python dict  *)
(* that is empty ({}) is the value with set = FALSE (or the resource        *)
(* "empty"), which is what the code's truthiness tests and .get defaults    *)
(* see.                                                                     *)
(***************************************************************************)
EXTENDS Integers, Sequences, FiniteSets, TLC

\* ---------------------------------------------------------------- bounds
\* The graph library stops a run after a fixed number of supersteps
\* (GraphRecursionError); the model stops it after MaxSteps node executions.
MaxSteps == 10
\* Longest issue list of an OperationOutcome answered by $validate.
MaxIssues == 1
\* Appends of one run that the audit database may fail.
MaxDbFailures == 1
\* Longest issue list answered to validate_fhir when it is called on its own.
MaxIssuesCall == 3
\* Crashes of the process the model follows, the node executions before a
\* crash and the node executions of the run that is started again after it.
MaxCrashes == 1
MaxStepsBeforeCrash == 2
MaxStepsAfterRestart == 2
\* Node executions of each of the concurrent runs.
MaxStepsPerRun == 3

\* ------------------------------------------------------------- constants
max_retries == 3

\* ---------------------------------------------------------------- values
\* Candidate resources.  "empty" is {}, the value of draft_json and
\* final_json in the initial state; "sr_bad" is a ServiceRequest the
\* fhirclient model constructor rejects; "sr1" and "sr2" are two different
\* ServiceRequests it accepts.
Resources == {"empty", "sr_bad", "sr1", "sr2"}

\* Objects a chat completion can answer with.
LLMOutputs == {"sr_bad", "sr1", "sr2"}

ResourceType(r) == IF r \in {"sr_bad", "sr1", "sr2"} THEN "ServiceRequest" ELSE "none"

\* servicerequest.ServiceRequest(resource_json) succeeds
FhirclientAccepts(r) == r \in {"sr1", "sr2"}

\* Python truthiness of a resource dict
Truthy(r) == r # "empty"

NoValidation == [set |-> FALSE, valid |-> FALSE, errors |-> <<>>]
NoPosting ==
    [set |-> FALSE, success |-> FALSE, status_code |-> 0, resource_id |-> "none",
     error |-> FALSE]

\* dict.get("valid", False), dict.get("errors", []), dict.get("success", False)
GetValid(vr) == IF vr.set THEN vr.valid ELSE FALSE
GetErrors(vr) == IF vr.set THEN vr.errors ELSE <<>>
GetSuccess(pr) == IF pr.set THEN pr.success ELSE FALSE

\* Issues of an OperationOutcome the workflow is run against: an error and a
\* fatal issue with diagnostics, a warning without.
Issues ==
    {[severity |-> "error", diagnostics |-> "d1"],
     [severity |-> "fatal", diagnostics |-> "d1"],
     [severity |-> "warning", diagnostics |-> "absent"]}

RECURSIVE SeqsUpTo(_, _)
SeqsUpTo(S, n) ==
    IF n = 0 THEN {<<>>}
    ELSE LET shorter == SeqsUpTo(S, n - 1)
         IN  shorter \cup {Append(s, x) : s \in {t \in shorter : Len(t) = n - 1}, x \in S}

\* What the HTTP POST to ServiceRequest/$validate can produce.
ValidateResponses ==
    {[exc |-> TRUE, status |-> 0, rtype |-> "none", issues |-> <<>>]}
    \cup {[exc |-> FALSE, status |-> 500, rtype |-> "none", issues |-> <<>>]}
    \cup {[exc |-> FALSE, status |-> 200, rtype |-> "Other", issues |-> <<>>]}
    \cup {[exc |-> FALSE, status |-> 200, rtype |-> "OperationOutcome", issues |-> is] :
            is \in SeqsUpTo(Issues, MaxIssues)}

\* What the HTTP POST to /ServiceRequest can produce.
PostResponses ==
    {[exc |-> TRUE, status |-> 0, body |-> "none", id |-> "none"]}
    \cup {[exc |-> FALSE, status |-> s, body |-> "object", id |-> "id1"] :
            s \in {200, 201, 400}}

\* What a chat completion can produce: an API error, or text that is the
\* JSON of a resource or garbage, bare or inside a ```json fence.
LLMResponses ==
    {[error |-> TRUE, fenced |-> FALSE, body |-> "garbage"]}
    \cup [error : {FALSE}, fenced : BOOLEAN, body : LLMOutputs \cup {"garbage"}]

\* Outcome of a registry lookup (Patient?_count=1, Practitioner?_count=1)
Lookups == {"exception", "no_entry", "found"}

\* ------------------------------------------------------------- tools.py

\* the loop over issues that puts each new error in front of the list.
RECURSIVE CollectErrors_prepend(_)
CollectErrors_prepend(issues) ==
    IF issues = <<>> THEN <<>>
    ELSE LET issue == Head(issues)
             rest == CollectErrors_prepend(Tail(issues))
         IN  IF issue.severity \in {"error", "fatal"}
             THEN rest \o <<IF issue.diagnostics = "absent" THEN "Unknown error"
                            ELSE issue.diagnostics>>
             ELSE rest

\* for issue in issues: if severity in ["error", "fatal"]:
\*     errors.append(issue.get("diagnostics", "Unknown error"))
RECURSIVE CollectErrors(_)
CollectErrors(issues) ==
    IF issues = <<>> THEN <<>>
    ELSE LET issue == Head(issues)
             rest == CollectErrors(Tail(issues))
         IN  IF issue.severity \in {"error", "fatal"}
             THEN <<IF issue.diagnostics = "absent" THEN "Unknown error"
                    ELSE issue.diagnostics>> \o rest
             ELSE rest

Invalid(errors) == [set |-> TRUE, valid |-> FALSE, errors |-> errors]
Valid == [set |-> TRUE, valid |-> TRUE, errors |-> <<>>]

\* validate_fhir with the text of an HTTP failure lost: the result is invalid
\* and carries no error.
validate_fhir_no_error_text(resource_json, resp) ==
    IF ResourceType(resource_json) # "ServiceRequest"
    THEN Invalid(<<"Only ServiceRequest resources supported">>)
    ELSE IF ~FhirclientAccepts(resource_json)
    THEN Invalid(<<"FHIR validation failed">>)
    ELSE IF resp.exc
    THEN Invalid(<<"transport error">>)
    ELSE IF resp.status = 200
    THEN IF resp.rtype = "unparsable"
         THEN Invalid(<<"transport error">>)
         ELSE IF resp.rtype = "OperationOutcome"
         THEN LET errors == CollectErrors(resp.issues)
              IN  IF errors # <<>> THEN Invalid(errors) ELSE Valid
         ELSE Valid
    ELSE Invalid(<<>>)

\* validate_fhir that takes every 2xx answer for a validation report.
validate_fhir_accepts_2xx(resource_json, resp) ==
    IF ResourceType(resource_json) # "ServiceRequest"
    THEN Invalid(<<"Only ServiceRequest resources supported">>)
    ELSE IF ~FhirclientAccepts(resource_json)
    THEN Invalid(<<"FHIR validation failed">>)
    ELSE IF resp.exc
    THEN Invalid(<<"transport error">>)
    ELSE IF resp.status \in 200 .. 299
    THEN IF resp.rtype = "unparsable"
         THEN Invalid(<<"transport error">>)
         ELSE IF resp.rtype = "OperationOutcome"
         THEN LET errors == CollectErrors(resp.issues)
              IN  IF errors # <<>> THEN Invalid(errors) ELSE Valid
         ELSE Valid
    ELSE Invalid(<<"HTTP error">>)

\* FHIRTools.validate_fhir: the local fhirclient check, then the answer of
\* the $validate request (resp); every exception becomes an invalid result
\* whose one error is str(e): of the request ("transport error"), and also of
\* response.json() on a 200 answer whose body is not a JSON object.
validate_fhir(resource_json, resp) ==
    IF ResourceType(resource_json) # "ServiceRequest"
    THEN Invalid(<<"Only ServiceRequest resources supported">>)
    ELSE IF ~FhirclientAccepts(resource_json)
    THEN Invalid(<<"FHIR validation failed">>)
    ELSE IF resp.exc
    THEN Invalid(<<"transport error">>)
    ELSE IF resp.status = 200
    THEN IF resp.rtype = "unparsable"
         THEN Invalid(<<"transport error">>)
         ELSE IF resp.rtype = "OperationOutcome"
         THEN LET errors == CollectErrors(resp.issues)
              IN  IF errors # <<>> THEN Invalid(errors) ELSE Valid
         ELSE Valid
    ELSE Invalid(<<"HTTP error">>)

\* One call of validate_fhir as its caller sees it: whether it raised (the
\* outer try / except Exception returns instead), how many requests it sent
\* to $validate (none when the local check fails, otherwise the one
\* client.post), and the dict it returned.
validate_fhir_call(resource_json, resp) ==
    [raised |-> FALSE,
     requests |-> IF ResourceType(resource_json) = "ServiceRequest"
                     /\ FhirclientAccepts(resource_json)
                  THEN 1 ELSE 0,
     result |-> validate_fhir(resource_json, resp)]

\* FHIRTools.post_fhir: never raises, always returns a non-empty dict.  error
\* tells whether the dict has the key "error"; status_code 0 and resource_id
\* "none" stand for a dict without the key, resource_id "absent" for the None
\* that result.get("id") gives for a body without an id.  On 200 and 201
\* response.json() is called inside the try: a body that is not a JSON
\* object raises there and the except branch answers as for an exception of
\* the request.
post_fhir(resp) ==
    IF resp.exc
    THEN [set |-> TRUE, success |-> FALSE, status_code |-> 0, resource_id |-> "none",
          error |-> TRUE]
    ELSE IF resp.status \in {200, 201}
    THEN IF resp.body = "unparsable"
         THEN [set |-> TRUE, success |-> FALSE, status_code |-> 0,
               resource_id |-> "none", error |-> TRUE]
         ELSE [set |-> TRUE, success |-> TRUE, status_code |-> resp.status,
               resource_id |-> resp.id, error |-> FALSE]
    ELSE [set |-> TRUE, success |-> FALSE, status_code |-> resp.status,
          resource_id |-> "none", error |-> TRUE]

\* One call of post_fhir as its caller sees it: whether it raised (the try /
\* except Exception around the whole body returns instead) and the dict it
\* returned.
post_fhir_call(resource_json, resp) ==
    [raised |-> FALSE, result |-> post_fhir(resp)]

\* A row of audit_log: the serialized input/output columns are left out and
\* of error_message only whether it is set is kept.
AuditRecord(operation, success, error_message, retry_count) ==
    [operation |-> operation, success |-> success,
     failed |-> error_message # "", retry_count |-> retry_count]

NoRecord == AuditRecord("none", FALSE, "", 0)

\* log_operation as a read-modify-write of the last row: the row another
\* run wrote in between is overwritten.
log_operation_overwrite(log, rec, dbOk) ==
    IF ~dbOk THEN log
    ELSE IF log = <<>> THEN <<rec>>
    ELSE [log EXCEPT ![Len(log)] = rec]

\* AuditLogger.log_operation: INSERT one row; an exception of the database
\* (dbOk = FALSE) is caught and logged, and no row is written.
log_operation(log, rec, dbOk) ==
    IF dbOk THEN Append(log, rec) ELSE log

\* log_operation that lets the exception of the database escape.
log_raises_uncaught(dbOk) == ~dbOk

\* Whether log_operation raises to the node that called it: the whole body is
\* inside try / except Exception, which only writes to the process log.
log_raises(dbOk) == FALSE

\* ------------------------------------------------------------- graph.py

\* The chat completion and json.loads(content), then the ```json fence
\* fallback.  ok = FALSE when any of them raises; str(e) is kept as the kind
\* of the exception.
ParseLLM(resp) ==
    IF resp.error THEN [ok |-> FALSE, value |-> "empty", err |-> "GenerationError"]
    ELSE IF resp.body = "garbage"
    THEN [ok |-> FALSE, value |-> "empty", err |-> "GenerationError"]
    ELSE [ok |-> TRUE, value |-> resp.body, err |-> ""]

\* should_retry with the ceiling test off by one (<=).
should_retry_inclusive(state) ==
    IF GetValid(state.validation_result) THEN "post"
    ELSE IF state.retry_count <= max_retries THEN "fix"
    ELSE "end"

\* should_retry that gives up on repair by posting what it has.
should_retry_post_at_ceiling(state) ==
    IF GetValid(state.validation_result) THEN "post"
    ELSE IF state.retry_count < max_retries THEN "fix"
    ELSE "post"

\* should_retry that tests the ceiling before the validity.
should_retry_count_first(state) ==
    IF state.retry_count >= max_retries THEN "end"
    ELSE IF GetValid(state.validation_result) THEN "post"
    ELSE "fix"

\* should_retry that stops one repair early.
should_retry_early_stop(state) ==
    IF GetValid(state.validation_result) THEN "post"
    ELSE IF state.retry_count < max_retries - 1 THEN "fix"
    ELSE "end"

\* should_retry: the router after validator.
should_retry(state) ==
    IF GetValid(state.validation_result) THEN "post"
    ELSE IF state.retry_count < max_retries THEN "fix"
    ELSE "end"

\* should_continue that records only a successful submission.
should_continue_success_only(state) ==
    IF GetSuccess(state.posting_result) THEN "log" ELSE "end"

\* should_continue: the router after poster.
should_continue(state) ==
    IF state.posting_result.set THEN "log" ELSE "end"

\* create_graph with an edge that runs poster again after a failed submission.
create_graph_resubmit(node, state) ==
    CASE node = "generator" -> "validator"
      [] node = "validator" ->
            (CASE should_retry(state) = "post" -> "poster"
               [] should_retry(state) = "fix" -> "fixer"
               [] should_retry(state) = "end" -> "logger")
      [] node = "fixer" -> "validator"
      [] node = "poster" ->
            (IF GetSuccess(state.posting_result) THEN "logger" ELSE "poster")
      [] node = "logger" -> "END"

\* create_graph with the "post" branch wired to logger.
create_graph_skip_post(node, state) ==
    CASE node = "generator" -> "validator"
      [] node = "validator" ->
            (CASE should_retry(state) = "post" -> "logger"
               [] should_retry(state) = "fix" -> "fixer"
               [] should_retry(state) = "end" -> "logger")
      [] node = "fixer" -> "validator"
      [] node = "poster" ->
            (IF should_continue(state) = "log" THEN "logger" ELSE "END")
      [] node = "logger" -> "END"

\* create_graph: the edges, as the node that runs after `node` returned `state`.
create_graph(node, state) ==
    CASE node = "generator" -> "validator"
      [] node = "validator" ->
            (CASE should_retry(state) = "post" -> "poster"
               [] should_retry(state) = "fix" -> "fixer"
               [] should_retry(state) = "end" -> "logger")
      [] node = "fixer" -> "validator"
      [] node = "poster" ->
            (IF should_continue(state) = "log" THEN "logger" ELSE "END")
      [] node = "logger" -> "END"

\* generator that does not require a practitioner before generating.
generator_no_practitioner_check(state, patients, practitioners, llm) ==
    LET seen == IF patients = "found"
                THEN [state EXCEPT !.empi_data = [id |-> "real", reference |-> "real"]]
                ELSE state
        Fail(msg, called) ==
            [st |-> [seen EXCEPT !.error_message = msg],
             rec |-> AuditRecord("generator", FALSE, msg, 0),
             patient |-> patients = "found",
             practitioner |-> patients = "found" /\ practitioners = "found",
             llm_called |-> called]
        parsed == ParseLLM(llm)
    IN  IF patients # "found" THEN Fail("PreconditionError", FALSE)
        ELSE IF ~parsed.ok THEN Fail(parsed.err, TRUE)
        ELSE [st |-> [seen EXCEPT !.draft_json = parsed.value],
              rec |-> AuditRecord("generator", TRUE, "", 0),
              patient |-> TRUE, practitioner |-> practitioners = "found",
              llm_called |-> TRUE]

\* generator: the two registry lookups, the chat completion, the parse.
\* empi_info is the dict object held in state["empi_data"], so writing the
\* registry's patient id into it changes the state on every return path.
\* patient and practitioner tell whether real_patient_id and
\* real_practitioner_id were set (the practitioner is looked up only after a
\* patient was found), llm_called whether the chat completion was requested.
generator(state, patients, practitioners, llm) ==
    LET seen == IF patients = "found"
                THEN [state EXCEPT !.empi_data = [id |-> "real", reference |-> "real"]]
                ELSE state
        Fail(msg, called) ==
            [st |-> [seen EXCEPT !.error_message = msg],
             rec |-> AuditRecord("generator", FALSE, msg, 0),
             patient |-> patients = "found",
             practitioner |-> patients = "found" /\ practitioners = "found",
             llm_called |-> called]
        parsed == ParseLLM(llm)
    IN  IF patients # "found" THEN Fail("PreconditionError", FALSE)
        ELSE IF practitioners # "found" THEN Fail("PreconditionError", FALSE)
        ELSE IF ~parsed.ok THEN Fail(parsed.err, TRUE)
        ELSE [st |-> [seen EXCEPT !.draft_json = parsed.value],
              rec |-> AuditRecord("generator", TRUE, "", 0),
              patient |-> TRUE, practitioner |-> TRUE, llm_called |-> TRUE]

\* validator that forgets to set final_json.
validator_drops_final(state, resp) ==
    LET validation_result == validate_fhir(state.draft_json, resp)
    IN  [st |-> [state EXCEPT !.validation_result = validation_result],
         rec |-> AuditRecord("validator", GetValid(validation_result), "", 0)]

\* validator that sets final_json whatever the outcome.
validator_always_final(state, resp) ==
    LET validation_result == validate_fhir(state.draft_json, resp)
    IN  [st |-> [state EXCEPT !.validation_result = validation_result,
                              !.final_json = state.draft_json],
         rec |-> AuditRecord("validator", GetValid(validation_result), "", 0)]

\* validator that counts a failed validation as a retry.
validator_counts_retry(state, resp) ==
    LET validation_result == validate_fhir(state.draft_json, resp)
    IN  [st |-> IF GetValid(validation_result)
                THEN [state EXCEPT !.validation_result = validation_result,
                                   !.final_json = state.draft_json]
                ELSE [state EXCEPT !.validation_result = validation_result,
                                   !.retry_count = state.retry_count + 1],
         rec |-> AuditRecord("validator", GetValid(validation_result), "", 0)]

\* validator: validate_fhir never raises, so the except branch is dead.
validator(state, resp) ==
    LET validation_result == validate_fhir(state.draft_json, resp)
    IN  [st |-> IF GetValid(validation_result)
                THEN [state EXCEPT !.validation_result = validation_result,
                                   !.final_json = state.draft_json]
                ELSE [state EXCEPT !.validation_result = validation_result],
         rec |-> AuditRecord("validator", GetValid(validation_result), "", 0)]

\* fixer that does not count the repair.
fixer_no_increment(state, llm) ==
    LET errors == GetErrors(state.validation_result)
        parsed == ParseLLM(llm)
    IN  IF errors = <<>>
        THEN [st |-> [state EXCEPT !.final_json = state.draft_json], rec |-> NoRecord]
        ELSE IF parsed.ok
        THEN [st |-> [state EXCEPT !.draft_json = parsed.value],
              rec |-> AuditRecord("fixer", TRUE, "", state.retry_count)]
        ELSE [st |-> [state EXCEPT !.error_message = parsed.err],
              rec |-> AuditRecord("fixer", FALSE, parsed.err, state.retry_count)]

\* fixer that also stores its result as final_json.
fixer_sets_final(state, llm) ==
    LET errors == GetErrors(state.validation_result)
        parsed == ParseLLM(llm)
    IN  IF errors = <<>>
        THEN [st |-> [state EXCEPT !.final_json = state.draft_json], rec |-> NoRecord]
        ELSE IF parsed.ok
        THEN [st |-> [state EXCEPT !.draft_json = parsed.value,
                                   !.final_json = parsed.value,
                                   !.retry_count = state.retry_count + 1],
              rec |-> AuditRecord("fixer", TRUE, "", state.retry_count)]
        ELSE [st |-> [state EXCEPT !.error_message = parsed.err],
              rec |-> AuditRecord("fixer", FALSE, parsed.err, state.retry_count)]

\* fixer that resets error_message when the repair succeeded.
fixer_clears_error(state, llm) ==
    LET errors == GetErrors(state.validation_result)
        parsed == ParseLLM(llm)
    IN  IF errors = <<>>
        THEN [st |-> [state EXCEPT !.final_json = state.draft_json], rec |-> NoRecord]
        ELSE IF parsed.ok
        THEN [st |-> [state EXCEPT !.draft_json = parsed.value,
                                   !.retry_count = state.retry_count + 1,
                                   !.error_message = ""],
              rec |-> AuditRecord("fixer", TRUE, "", state.retry_count)]
        ELSE [st |-> [state EXCEPT !.error_message = parsed.err],
              rec |-> AuditRecord("fixer", FALSE, parsed.err, state.retry_count)]

\* fixer that logs the retry_count it returns.
fixer_logs_new_count(state, llm) ==
    LET errors == GetErrors(state.validation_result)
        parsed == ParseLLM(llm)
    IN  IF errors = <<>>
        THEN [st |-> [state EXCEPT !.final_json = state.draft_json], rec |-> NoRecord]
        ELSE IF parsed.ok
        THEN [st |-> [state EXCEPT !.draft_json = parsed.value,
                                   !.retry_count = state.retry_count + 1],
              rec |-> AuditRecord("fixer", TRUE, "", state.retry_count + 1)]
        ELSE [st |-> [state EXCEPT !.error_message = parsed.err],
              rec |-> AuditRecord("fixer", FALSE, parsed.err, state.retry_count)]

\* fixer: returns early, without an audit row, when there are no errors.
fixer(state, llm) ==
    LET errors == GetErrors(state.validation_result)
        parsed == ParseLLM(llm)
    IN  IF errors = <<>>
        THEN [st |-> [state EXCEPT !.final_json = state.draft_json], rec |-> NoRecord]
        ELSE IF parsed.ok
        THEN [st |-> [state EXCEPT !.draft_json = parsed.value,
                                   !.retry_count = state.retry_count + 1],
              rec |-> AuditRecord("fixer", TRUE, "", state.retry_count)]
        ELSE [st |-> [state EXCEPT !.error_message = parsed.err],
              rec |-> AuditRecord("fixer", FALSE, parsed.err, state.retry_count)]

\* poster that records every submission as a success.
poster_marks_success(state, resp) ==
    LET posting_result == post_fhir(resp)
    IN  [st |-> [state EXCEPT !.posting_result = posting_result],
         rec |-> AuditRecord("poster", TRUE, "", 0),
         posted |-> state.final_json]

\* poster: post_fhir never raises, so the except branch is dead.
\* posted is the resource handed to post_fhir.
poster(state, resp) ==
    LET posting_result == post_fhir(resp)
    IN  [st |-> [state EXCEPT !.posting_result = posting_result],
         rec |-> AuditRecord("poster", GetSuccess(posting_result), "", 0),
         posted |-> state.final_json]

logger_node(state) ==
    [st |-> state,
     rec |-> AuditRecord("complete_workflow", GetSuccess(state.posting_result), "", 0)]

\* ---------------------------------------------------------------- main.py

\* empi_data of the initial state: {} or the patient the EMPI lookup found.
EmpiData == {[id |-> "none", reference |-> "none"], [id |-> "empi", reference |-> "none"]}

initial_state(empi_data) ==
    [pdf_data |-> "text",
     empi_data |-> empi_data,
     draft_json |-> "empty",
     validation_result |-> NoValidation,
     final_json |-> "empty",
     posting_result |-> NoPosting,
     retry_count |-> 0,
     error_message |-> ""]

\* process_referral that does not look at the success flag of the extraction.
can_start_ignores_extraction(fileExists, extracted) == fileExists

\* process_referral before the run: pdf_file.exists() and
\* pdf_result.get("success", False), each raising when it is false.
can_start(fileExists, extracted) == fileExists /\ extracted

NoResult == [returned |-> FALSE, success |-> FALSE, error |-> "", retry_count |-> 0]

\* The dict process_referral returns after the workflow ended with `final`,
\* or after ainvoke raised (raised = TRUE).
process_referral_result(final, raised) ==
    IF raised
    THEN [returned |-> TRUE, success |-> FALSE, error |-> "exception", retry_count |-> 0]
    ELSE IF final.error_message # ""
    THEN [returned |-> TRUE, success |-> FALSE, error |-> final.error_message,
          retry_count |-> final.retry_count]
    ELSE [returned |-> TRUE, success |-> TRUE, error |-> "", retry_count |-> final.retry_count]

\* main of router.py (and of agent_app/main.py): the exit code of the command
\* line, decided by result["success"] alone.
main(res) == IF res.success THEN 0 ELSE 1

\* ----------------------------------------------------------------- state
VARIABLES
    pc,         \* "start", the node about to run, "END", "raised" or "returned"
    state,      \* the AgentState of the run
    audit_log,  \* the rows of table audit_log, in insertion order
    steps,      \* node executions so far in this run
    result,     \* what process_referral returned
    hist,       \* history of the run: what ran, what was handed to the tools
    call        \* a call of a tool on its own: its arguments and what it returned

vars == <<pc, state, audit_log, steps, result, hist, call>>

Nodes == {"generator", "validator", "fixer", "poster", "logger"}

\* no tool is called on its own
NoCall == [done |-> FALSE]

NoHist ==
    [calls |-> [n \in Nodes |-> 0],   \* executions of each node
     appends |-> 0,                   \* calls of log_operation
     fixer_raised |-> 0,              \* fixer executions that raised
     fixer_noop |-> 0,                \* fixer executions on an empty error list
     submitted |-> <<>>,              \* resources handed to post_fhir
     validated |-> "empty",           \* draft_json at the last valid validation
     gen |-> [patient |-> FALSE,      \* generator resolved a patient id,
              practitioner |-> FALSE, \* a practitioner id,
              llm_called |-> FALSE,   \* requested the chat completion,
              ok |-> FALSE],          \* returned a draft
     crashes |-> 0,                   \* crashes of the process
     document |-> [seen |-> FALSE,    \* process_referral was called,
                   exists |-> FALSE,  \* the document exists,
                   extracted |-> FALSE], \* its text was extracted
     last |-> "none"]                 \* the node that ran last

Init ==
    /\ pc = "start"
    /\ state = initial_state([id |-> "none", reference |-> "none"])
    /\ audit_log = <<>>
    /\ steps = 0
    /\ result = NoResult
    /\ hist = NoHist
    /\ call = NoCall

\* process_referral up to ainvoke: a missing file or a failed extraction
\* returns a failure before any node runs.
Start ==
    /\ pc = "start"
    /\ \E fileExists \in BOOLEAN, extracted \in BOOLEAN, empi_data \in EmpiData :
         /\ hist' = [hist EXCEPT !.document =
                         [seen |-> TRUE, exists |-> fileExists,
                          extracted |-> fileExists /\ extracted]]
         /\ IF can_start(fileExists, extracted)
            THEN /\ state' = initial_state(empi_data)
                 /\ pc' = "generator"
                 /\ result' = result
            ELSE /\ result' = process_referral_result(state, TRUE)
                 /\ pc' = "returned"
                 /\ state' = state
    /\ UNCHANGED <<audit_log, steps, call>>

\* One superstep of the graph: node ran and returned out.
RunNode(node, out, dbOk) ==
    /\ pc = node
    /\ steps < MaxSteps
    /\ hist.crashes = 0 \/ steps < MaxStepsAfterRestart
    /\ dbOk \/ hist.appends - Len(audit_log) < MaxDbFailures
    /\ IF out.rec # NoRecord /\ log_raises(dbOk)
       THEN \* an exception leaving a node leaves ainvoke
            /\ state' = state
            /\ audit_log' = audit_log
            /\ pc' = "raised"
       ELSE /\ state' = out.st
            /\ audit_log' = IF out.rec = NoRecord THEN audit_log
                            ELSE log_operation(audit_log, out.rec, dbOk)
            /\ pc' = create_graph(node, out.st)
    /\ steps' = steps + 1
    /\ UNCHANGED <<result, call>>

Ran(node, out) ==
    [hist EXCEPT !.calls[node] = @ + 1,
                 !.appends = IF out.rec = NoRecord THEN @ ELSE @ + 1,
                 !.last = node]

Generator ==
    \E patients \in Lookups, practitioners \in Lookups, llm \in LLMResponses,
       dbOk \in BOOLEAN :
        LET out == generator(state, patients, practitioners, llm)
        IN  /\ RunNode("generator", out, dbOk)
            /\ hist' = [Ran("generator", out) EXCEPT
                          !.gen = [patient |-> out.patient,
                                   practitioner |-> out.practitioner,
                                   llm_called |-> out.llm_called,
                                   ok |-> out.rec.success]]

Validator ==
    \E resp \in ValidateResponses, dbOk \in BOOLEAN :
        LET out == validator(state, resp)
        IN  /\ RunNode("validator", out, dbOk)
            /\ hist' = [Ran("validator", out) EXCEPT
                          !.validated = IF GetValid(out.st.validation_result)
                                        THEN state.draft_json ELSE @]

Fixer ==
    \E llm \in LLMResponses, dbOk \in BOOLEAN :
        LET out == fixer(state, llm)
        IN  /\ RunNode("fixer", out, dbOk)
            /\ hist' = [Ran("fixer", out) EXCEPT
                          !.fixer_raised = IF out.st.error_message # state.error_message
                                              \/ (out.rec # NoRecord /\ ~out.rec.success)
                                           THEN @ + 1 ELSE @,
                          !.fixer_noop = IF out.rec = NoRecord THEN @ + 1 ELSE @]

Poster ==
    \E resp \in PostResponses, dbOk \in BOOLEAN :
        LET out == poster(state, resp)
        IN  /\ RunNode("poster", out, dbOk)
            /\ hist' = [Ran("poster", out) EXCEPT
                          !.submitted = Append(@, out.posted)]

Logger ==
    \E dbOk \in BOOLEAN :
        LET out == logger_node(state)
        IN  /\ RunNode("logger", out, dbOk)
            /\ hist' = Ran("logger", out)

\* The graph library raises GraphRecursionError when the step limit is hit
\* before END; process_referral catches it.
RecursionLimit ==
    /\ pc \in Nodes
    /\ steps >= MaxSteps
    /\ pc' = "raised"
    /\ UNCHANGED <<state, audit_log, steps, result, hist, call>>

\* process_referral after ainvoke.
Return ==
    /\ pc \in {"END", "raised"}
    /\ result' = process_referral_result(state, pc = "raised")
    /\ pc' = "returned"
    /\ UNCHANGED <<state, audit_log, steps, hist, call>>

Next ==
    \/ Start
    \/ Generator
    \/ Validator
    \/ Fixer
    \/ Poster
    \/ Logger
    \/ RecursionLimit
    \/ Return

Spec == Init /\ [][Next]_vars

\* ------------------------------------------------- the routers on their own
\* The routers are functions of the state alone: SpecRouter applies them to
\* every state of RouterStates, also those no run reaches.
RouterStates ==
    [pdf_data : {"text"},
     empi_data : {[id |-> "none", reference |-> "none"]},
     draft_json : {"sr1"},
     validation_result : {NoValidation, Valid, Invalid(<<>>), Invalid(<<"d1">>)},
     final_json : {"empty", "sr1"},
     posting_result : {NoPosting} \cup {post_fhir(r) : r \in PostResponses},
     retry_count : 0 .. max_retries + 1,
     error_message : {"", "GenerationError"}]

InitRouter ==
    /\ pc = "router"
    /\ state \in RouterStates
    /\ audit_log = <<>>
    /\ steps = 0
    /\ result = NoResult
    /\ hist = NoHist
    /\ call = NoCall

\* the conditional edge after validator
RouteAfterValidator ==
    /\ pc = "router"
    /\ pc' = create_graph("validator", state)
    /\ hist' = [hist EXCEPT !.last = "validator"]
    /\ UNCHANGED <<state, audit_log, steps, result, call>>

\* the conditional edge after poster
RouteAfterPoster ==
    /\ pc = "router"
    /\ pc' = create_graph("poster", state)
    /\ hist' = [hist EXCEPT !.last = "poster"]
    /\ UNCHANGED <<state, audit_log, steps, result, call>>

NextRouter ==
    \/ RouteAfterValidator
    \/ RouteAfterPoster

SpecRouter == InitRouter /\ [][NextRouter]_vars

\* ------------------------------------------------------ crash and restart
\* get_compiled_graph compiles the graph with MemorySaver(), a checkpointer
\* that lives in the memory of the process; the audit log is a file.

\* The process dies while a node is in progress.  state keeps the value of
\* the last checkpoint, which is what a resumed run would start from.
Crash ==
    /\ pc \in Nodes
    /\ steps >= 1
    /\ steps <= MaxStepsBeforeCrash
    /\ hist.crashes < MaxCrashes
    /\ pc' = "crashed"
    /\ hist' = [hist EXCEPT !.crashes = @ + 1]
    /\ UNCHANGED <<state, audit_log, steps, result, call>>

\* The command is run again on the same document: ReferralRouter() compiles
\* the graph with a new, empty MemorySaver, and process_referral builds
\* initial_state and hands it to ainvoke under the same thread_id.
Restart ==
    /\ pc = "crashed"
    /\ \E empi_data \in EmpiData : state' = initial_state(empi_data)
    /\ pc' = "generator"
    /\ steps' = 0
    /\ UNCHANGED <<audit_log, result, hist, call>>

NextCrash ==
    \/ Start
    \/ Generator
    \/ Validator
    \/ Fixer
    \/ Poster
    \/ Logger
    \/ RecursionLimit
    \/ Return
    \/ Crash
    \/ Restart

SpecCrash == Init /\ [][NextCrash]_vars

\* ------------------------------------------------------- concurrent runs
\* audit_logger is one AuditLogger for the module, on one database file: all
\* runs of the process, and all processes started on the same directory,
\* append to the same table.  log_operation is a synchronous call (no await)
\* that opens its own connection and commits one INSERT, so between two runs
\* an append is one step.  In SpecAudit pc, state and steps are functions of
\* the run, and hist.accepted lists, for every append the database accepted,
\* the run, the number of its step and the record.
Runs == {"r1", "r2"}

\* the answers the services give the concurrent runs
LLMOfRuns ==
    {[error |-> TRUE, fenced |-> FALSE, body |-> "garbage"],
     [error |-> FALSE, fenced |-> FALSE, body |-> "sr1"]}

ValidateOfRuns ==
    {[exc |-> FALSE, status |-> 500, rtype |-> "none", issues |-> <<>>],
     [exc |-> FALSE, status |-> 200, rtype |-> "OperationOutcome", issues |-> <<>>]}

PostOfRuns ==
    {[exc |-> TRUE, status |-> 0, body |-> "none", id |-> "none"],
     [exc |-> FALSE, status |-> 201, body |-> "object", id |-> "id1"]}

\* what node can return and log when run on st
NodeResults(node, st) ==
    CASE node = "generator" ->
            {[st |-> generator(st, "found", "found", llm).st,
              rec |-> generator(st, "found", "found", llm).rec] : llm \in LLMOfRuns}
      [] node = "validator" ->
            {[st |-> validator(st, resp).st, rec |-> validator(st, resp).rec] :
                resp \in ValidateOfRuns}
      [] node = "fixer" ->
            {[st |-> fixer(st, llm).st, rec |-> fixer(st, llm).rec] : llm \in LLMOfRuns}
      [] node = "poster" ->
            {[st |-> poster(st, resp).st, rec |-> poster(st, resp).rec] :
                resp \in PostOfRuns}
      [] node = "logger" -> {logger_node(st)}

InitAudit ==
    /\ pc = [r \in Runs |-> "generator"]
    /\ state = [r \in Runs |-> initial_state([id |-> "none", reference |-> "none"])]
    /\ audit_log = <<>>
    /\ steps = [r \in Runs |-> 0]
    /\ result = NoResult
    /\ hist = [accepted |-> <<>>, appends |-> [r \in Runs |-> 0]]
    /\ call = NoCall

\* run r executes its next node, which appends its record
StepOfRun(r) ==
    /\ pc[r] \in Nodes
    /\ steps[r] < MaxStepsPerRun
    /\ \E out \in NodeResults(pc[r], state[r]), dbOk \in BOOLEAN :
         /\ dbOk \/ hist.appends["r1"] + hist.appends["r2"] - Len(hist.accepted)
                        < MaxDbFailures
         /\ state' = [state EXCEPT ![r] = out.st]
         /\ pc' = [pc EXCEPT ![r] = create_graph(pc[r], out.st)]
         /\ audit_log' = IF out.rec = NoRecord THEN audit_log
                         ELSE log_operation(audit_log, out.rec, dbOk)
         /\ hist' = IF out.rec = NoRecord THEN hist
                    ELSE [accepted |-> IF dbOk
                                       THEN Append(hist.accepted,
                                                   [run |-> r, k |-> steps[r] + 1,
                                                    rec |-> out.rec])
                                       ELSE hist.accepted,
                          appends |-> [hist.appends EXCEPT ![r] = @ + 1]]
    /\ steps' = [steps EXCEPT ![r] = @ + 1]
    /\ UNCHANGED <<result, call>>

NextAudit == \E r \in Runs : StepOfRun(r)

SpecAudit == InitAudit /\ [][NextAudit]_vars

\* --------------------------------------------------------- fixer on its own
\* The graph runs fixer only after an invalid validation, whose error list is
\* never empty; SpecFixer calls the node on every state of RouterStates, the
\* ones with an empty or missing error list included.
InitFixer ==
    /\ pc = "fixer_call"
    /\ state \in RouterStates
    /\ audit_log = <<>>
    /\ steps = 0
    /\ result = NoResult
    /\ hist = NoHist
    /\ call = NoCall

\* await fixer(state)
CallFixer ==
    /\ pc = "fixer_call"
    /\ \E llm \in LLMResponses, dbOk \in BOOLEAN :
         LET out == fixer(state, llm)
         IN  /\ state' = out.st
             /\ audit_log' = IF out.rec = NoRecord THEN audit_log
                             ELSE log_operation(audit_log, out.rec, dbOk)
             /\ hist' = [Ran("fixer", out) EXCEPT
                           !.fixer_noop = IF out.rec = NoRecord THEN @ + 1 ELSE @]
    /\ pc' = "returned"
    /\ steps' = steps + 1
    /\ UNCHANGED <<result, call>>

NextFixer == CallFixer

SpecFixer == InitFixer /\ [][NextFixer]_vars

\* ------------------------------------------------- validate_fhir on its own
\* validate_fhir is a function of the resource and of the answer of the one
\* request it sends: SpecValidate calls it once on every pair below.

\* issue.get("severity") and issue.get("diagnostics"): present or absent;
\* "null" is a diagnostics key whose value is JSON null, for which
\* issue.get("diagnostics", "Unknown error") gives None and not the default
IssuesOfCall ==
    [severity : {"error", "fatal", "warning", "absent"},
     diagnostics : {"d1", "d2", "absent", "null"}]

\* answers of $validate: an exception of the request, a status other than
\* 200, and a 200 whose body is not JSON, is another resource, or is an
\* OperationOutcome
ResponsesOfCall ==
    {[exc |-> TRUE, status |-> 0, rtype |-> "none", issues |-> <<>>]}
    \cup {[exc |-> FALSE, status |-> st, rtype |-> "none", issues |-> <<>>] :
            st \in {201, 404, 500}}
    \cup {[exc |-> FALSE, status |-> 200, rtype |-> t, issues |-> <<>>] :
            t \in {"unparsable", "Other"}}
    \cup {[exc |-> FALSE, status |-> 200, rtype |-> "OperationOutcome", issues |-> is] :
            is \in SeqsUpTo(IssuesOfCall, MaxIssuesCall)}

InitValidate ==
    /\ pc = "validate_fhir"
    /\ state = initial_state([id |-> "none", reference |-> "none"])
    /\ audit_log = <<>>
    /\ steps = 0
    /\ result = NoResult
    /\ hist = NoHist
    /\ call \in [done : {FALSE},
                 resource_json : {"empty", "sr_bad", "sr1"},
                 resp : ResponsesOfCall]

\* await fhir_tools.validate_fhir(resource_json)
CallValidate ==
    /\ pc = "validate_fhir"
    /\ call' = [done |-> TRUE,
                resource_json |-> call.resource_json,
                resp |-> call.resp,
                out |-> validate_fhir_call(call.resource_json, call.resp)]
    /\ pc' = "returned"
    /\ UNCHANGED <<state, audit_log, steps, result, hist>>

NextValidate == CallValidate

SpecValidate == InitValidate /\ [][NextValidate]_vars

\* ------------------------------------------------------ post_fhir on its own
\* answers of POST /ServiceRequest: an exception of the request, or a status
\* with a body that is a JSON object, with or without an id, or is not one
ResponsesOfPost ==
    {[exc |-> TRUE, status |-> 0, body |-> "none", id |-> "none"]}
    \cup {[exc |-> FALSE, status |-> st, body |-> "object", id |-> i] :
            st \in {200, 201, 202, 204, 400, 404, 500}, i \in {"id1", "id2", "absent"}}
    \cup {[exc |-> FALSE, status |-> st, body |-> "unparsable", id |-> "none"] :
            st \in {200, 201, 202, 204, 400, 404, 500}}

InitPost ==
    /\ pc = "post_fhir"
    /\ state = initial_state([id |-> "none", reference |-> "none"])
    /\ audit_log = <<>>
    /\ steps = 0
    /\ result = NoResult
    /\ hist = NoHist
    /\ call \in [done : {FALSE}, resource_json : Resources, resp : ResponsesOfPost]

\* await fhir_tools.post_fhir(final_json)
CallPost ==
    /\ pc = "post_fhir"
    /\ call' = [done |-> TRUE,
                resource_json |-> call.resource_json,
                resp |-> call.resp,
                out |-> post_fhir_call(call.resource_json, call.resp)]
    /\ pc' = "returned"
    /\ UNCHANGED <<state, audit_log, steps, result, hist>>

NextPost == CallPost

SpecPost == InitPost /\ [][NextPost]_vars

\* ---------------------------------------------------------------- claims

Steps == {"generator", "validator", "fixer", "poster"}

\* rows of the audit log written by node n
Rows(n) ==
    LET op == IF n = "logger" THEN "complete_workflow" ELSE n
    IN  Cardinality({i \in DOMAIN audit_log : audit_log[i].operation = op})

\* executions of all nodes so far
Executions ==
    hist.calls["generator"] + hist.calls["validator"] + hist.calls["fixer"]
        + hist.calls["poster"] + hist.calls["logger"]

\* appends the audit database failed
Dropped == hist.appends - Len(audit_log)

\* C1: in any run poster (post_fhir) executes at most once.
C1_SubmitAtMostOnce ==
    hist.calls["poster"] <= 1 /\ Len(hist.submitted) <= 1

\* a run that submitted, failed to, and returned
C1_Witness ==
    /\ pc = "returned"
    /\ hist.calls["poster"] = 1
    /\ ~GetSuccess(state.posting_result)

\* C2: whenever poster executes, the validation_result of the state has
\* valid = true (before it runs, and after: poster leaves it alone).
C2_SubmitOnlyWhenValid ==
    (pc = "poster" \/ hist.calls["poster"] > 0) => GetValid(state.validation_result)

C2_Witness ==
    hist.last = "poster" /\ GetValid(state.validation_result) /\ state.retry_count = max_retries

\* C3: once a step has raised and set error_message, no generate, validate,
\* repair or submit step is about to run.
C3_FailureShortCircuits ==
    state.error_message # "" => pc \notin Steps

\* C4: fixer is attempted at most max_retries times per run.
C4_RepairAtMostCeiling ==
    hist.calls["fixer"] <= max_retries

\* C5: when fixer is about to run retry_count < max_retries, and retry_count
\* never exceeds max_retries.
C5_RetryBelowCeiling ==
    /\ pc = "fixer" => state.retry_count < max_retries
    /\ state.retry_count <= max_retries

\* fixer ran with retry_count = max_retries - 1 and brought it to the ceiling
C5_Witness ==
    hist.last = "fixer" /\ state.retry_count = max_retries

\* C6: the resource handed to post_fhir is draft_json as it was at the most
\* recent validation that returned valid = true.
C6_SubmittedIsValidated ==
    \A i \in DOMAIN hist.submitted :
        hist.submitted[i] = hist.validated /\ hist.validated # "empty"

\* submission of the second repair's resource, after other candidates
C6_Witness ==
    /\ hist.submitted = <<"sr2">>
    /\ state.retry_count = 2

\* C7: no terminal state has both a non-empty error_message and a
\* posting_result with success = true.
C7_FailureExcludesSuccess ==
    pc \in {"END", "returned"} =>
        ~(state.error_message # "" /\ GetSuccess(state.posting_result))

\* C8: final_json is set if and only if the most recent validation outcome
\* has valid = true.
C8_FinalIffValid ==
    Truthy(state.final_json) <=> GetValid(state.validation_result)

\* final_json set by a validation that followed failed ones
C8_Witness ==
    /\ Truthy(state.final_json)
    /\ GetValid(state.validation_result)
    /\ hist.calls["validator"] > 1

\* C9 as stated: a run that started writes at least 1 and at most
\* 2 + 2 * max_retries audit records.
C9_AuditCountOriginal ==
    (pc = "returned" /\ hist.calls["generator"] > 0) =>
        (Len(audit_log) >= 1 /\ Len(audit_log) <= 2 + 2 * max_retries)

\* C9 amended: a run writes at most 4 + 2 * (retry_count + repair attempts
\* that raised) audit records, so at most 4 + 2 * max_retries plus two for
\* every repair attempt that raised; and at least 1 once generate has run,
\* unless the audit database failed an append.
C9_AuditCountAmended ==
    /\ Len(audit_log) <= 4 + 2 * (state.retry_count + hist.fixer_raised)
    /\ Len(audit_log) <= 4 + 2 * max_retries + 2 * hist.fixer_raised
    /\ (hist.calls["generator"] > 0 /\ Dropped = 0) => Len(audit_log) >= 1

\* a finished run with 4 + 2 * max_retries records
C9_Witness ==
    /\ pc = "returned"
    /\ Len(audit_log) = 4 + 2 * max_retries
    /\ hist.fixer_raised = 0

\* C10 as stated: between steps, the audit log holds exactly one record for
\* every attempt of generate, validate, repair and submit.
C10_OneRecordPerAttemptOriginal ==
    \A n \in Steps : Rows(n) = hist.calls[n]

\* C10 amended: every attempt of a step makes exactly one append before the
\* next step begins; the record is written unless the audit database fails
\* the append, and then the attempt leaves no record.
C10_OneAppendPerAttempt ==
    /\ hist.appends = Executions
    /\ \A n \in Nodes : Rows(n) <= hist.calls[n]
    /\ Dropped = 0 => \A n \in Nodes : Rows(n) = hist.calls[n]

\* a repair attempt that raised and an append that was lost
C10_Witness ==
    /\ hist.fixer_raised > 0
    /\ Dropped = 1
    /\ Rows("fixer") = hist.calls["fixer"]

\* the run is over: the graph reached END, or process_referral returned
Ended == pc \in {"END", "returned"}

\* C11: after validator the next node is poster when valid is true, otherwise
\* fixer when retry_count < max_retries, otherwise logger; validity is tested
\* first, so a valid result at retry_count = max_retries goes to poster.
C11_RouteAfterValidate ==
    [][(pc = "validator" /\ pc' # "raised") =>
          pc' = IF GetValid(state'.validation_result) THEN "poster"
                ELSE IF state'.retry_count < max_retries THEN "fixer"
                ELSE "logger"]_vars

\* a valid result exactly at the ceiling is routed to poster
C11_Witness ==
    /\ hist.last = "validator"
    /\ GetValid(state.validation_result)
    /\ state.retry_count = max_retries
    /\ pc = "poster"

\* C12: after poster the next node is logger whenever posting_result is a
\* result object, of a successful or of a failed submission, and the graph
\* ends without logger only when there is no posting_result.
C12_RouteAfterSubmit ==
    hist.last = "poster" =>
        /\ state.posting_result.set <=> pc = "logger"
        /\ ~state.posting_result.set <=> pc = "END"

\* the result of a failed submission is routed to logger
C12_Witness ==
    /\ hist.last = "poster"
    /\ state.posting_result.set
    /\ ~GetSuccess(state.posting_result)
    /\ pc = "logger"

\* C13: retry_count is never negative, never decreases, and only a fixer step
\* changes it (by one).
C13_RetryCountMonotone ==
    [][/\ state.retry_count >= 0
       /\ state'.retry_count >= state.retry_count
       /\ state'.retry_count # state.retry_count =>
            (pc = "fixer" /\ state'.retry_count = state.retry_count + 1)]_vars

\* retry_count was raised by fixer and kept by the validator that followed
C13_Witness ==
    /\ hist.last = "validator"
    /\ state.retry_count = 2

\* C14: once final_json is set, no later step changes it.
C14_FinalJsonFrozen ==
    [][Truthy(state.final_json) => state'.final_json = state.final_json]_vars

\* final_json set after a repair, and poster and logger ran after that
C14_Witness ==
    /\ Truthy(state.final_json)
    /\ hist.calls["fixer"] > 0
    /\ hist.last = "logger"

\* C15: when no patient or no practitioner was found, generate sets
\* error_message and the run writes no validator and no poster record.
C15_NoIdentityNoFurtherRecords ==
    (hist.calls["generator"] > 0 /\ ~(hist.gen.patient /\ hist.gen.practitioner)) =>
        /\ state.error_message # ""
        /\ Rows("validator") = 0
        /\ Rows("poster") = 0

\* C16: generator requests the chat completion only after it resolved a
\* patient and a practitioner; when either is missing it fails without
\* requesting it.
C16_GenerateAfterIdentity ==
    hist.calls["generator"] > 0 =>
        /\ hist.gen.llm_called => (hist.gen.patient /\ hist.gen.practitioner)
        /\ ~(hist.gen.patient /\ hist.gen.practitioner) =>
              (~hist.gen.llm_called /\ ~hist.gen.ok /\ state.error_message # "")

\* a patient was found, a practitioner was not, and nothing was generated
C16_Witness ==
    /\ hist.calls["generator"] > 0
    /\ hist.gen.patient
    /\ ~hist.gen.practitioner
    /\ ~hist.gen.llm_called
    /\ state.draft_json = "empty"

\* C17: a validation that failed in transport (exception or non-200 answer)
\* sets error_message and is not followed by fixer.
C17_TransportFailureNotRepaired ==
    (/\ hist.last = "validator"
     /\ state.validation_result.errors \in {<<"transport error">>, <<"HTTP error">>}) =>
        (state.error_message # "" /\ pc # "fixer")

\* every validation so far was invalid, generate and every repair succeeded
AlwaysInvalid ==
    /\ hist.gen.ok
    /\ hist.calls["validator"] > 0
    /\ hist.fixer_raised = 0
    /\ hist.fixer_noop = 0
    /\ ~GetValid(state.validation_result)

\* C18: a run whose candidate is invalid at every validation and whose
\* repairs all succeed ends through the ceiling: retry_count = max_retries,
\* no submission, error_message unset, valid = false.
C18_CeilingExhausted ==
    (AlwaysInvalid /\ (Ended \/ pc = "raised")) =>
        /\ pc # "raised"
        /\ state.retry_count = max_retries
        /\ hist.calls["fixer"] = max_retries
        /\ hist.calls["poster"] = 0
        /\ hist.submitted = <<>>
        /\ state.error_message = ""
        /\ ~GetValid(state.validation_result)

C18_Witness ==
    /\ AlwaysInvalid
    /\ pc = "returned"
    /\ state.retry_count = max_retries

\* C19: when the first validation is valid, fixer never runs, poster runs
\* exactly once and retry_count stays 0.
C19_ValidFirstTry ==
    (hist.calls["validator"] = 1 /\ GetValid(state.validation_result)) =>
        /\ hist.calls["fixer"] = 0
        /\ state.retry_count = 0
        /\ pc # "raised"
        /\ hist.calls["poster"] <= 1
        /\ pc \in {"logger", "END", "returned"} => hist.calls["poster"] = 1

C19_Witness ==
    /\ hist.calls["validator"] = 1
    /\ GetValid(state.validation_result)
    /\ hist.calls["poster"] = 1
    /\ pc = "returned"

\* generate succeeded, the first validations were invalid with errors, every
\* repair succeeded and the last validation was valid
RepairedThenValid ==
    /\ hist.gen.ok
    /\ hist.calls["validator"] > 1
    /\ hist.fixer_raised = 0
    /\ hist.fixer_noop = 0
    /\ GetValid(state.validation_result)

\* C20: when the first k validations are invalid, every repair succeeds and
\* validation k + 1 is valid, the run submits once and ends with
\* retry_count = k, reported as a success.
C20_RepairedThenValidSubmits ==
    RepairedThenValid =>
        LET k == hist.calls["validator"] - 1
        IN  /\ k <= max_retries
            /\ state.retry_count = k
            /\ hist.calls["fixer"] = k
            /\ pc # "raised"
            /\ pc \in {"logger", "END", "returned"} =>
                  (hist.calls["poster"] = 1 /\ state.error_message = "")
            /\ pc = "returned" => (result.success /\ result.retry_count = k)

\* an invalid first draft fixed by the first repair
C20_Witness ==
    /\ RepairedThenValid
    /\ pc = "returned"
    /\ state.retry_count = 1
    /\ result.success
    /\ GetSuccess(state.posting_result)

\* the submission failed in transport: post_fhir caught an exception and
\* returned a result without a status_code
SubmitTransportFailed ==
    state.posting_result.set /\ state.posting_result.status_code = 0

\* C21: when the submission fails in transport, posting_result.success is
\* false, poster hands one record with success = false to the audit log (the
\* only poster row, present unless the database failed an append), and no
\* generate, validate, repair or submit step runs afterwards: only logger.
C21_SubmitTransportFailure ==
    SubmitTransportFailed =>
        /\ ~GetSuccess(state.posting_result)
        /\ hist.calls["poster"] = 1
        /\ hist.last \in {"poster", "logger"}
        /\ pc \in {"logger", "END", "raised", "returned"}
        /\ \A i \in DOMAIN audit_log :
              audit_log[i].operation = "poster" => ~audit_log[i].success
        /\ Dropped = 0 => Rows("poster") = 1

\* a run that ended after a transport failure of the submission, with the
\* poster and the logger record written
C21_Witness ==
    /\ SubmitTransportFailed
    /\ pc = "returned"
    /\ Dropped = 0
    /\ Rows("poster") = 1
    /\ hist.last = "logger"

\* C22: the command line exits with 0 only when the run succeeded (the
\* resource was submitted and accepted, no error_message) and with 1 on every
\* failure, a run that exhausted the retry ceiling and a run whose submission
\* failed included.
C22_ExitCode ==
    pc = "returned" =>
        (main(result) = 0 <=>
            (state.error_message = "" /\ GetSuccess(state.posting_result)))

\* the states node can return when run on st, over every answer of the
\* services it calls
NodeOutputs(node, st) ==
    CASE node = "generator" ->
            {generator(st, p, q, llm).st :
                p \in Lookups, q \in Lookups, llm \in LLMResponses}
      [] node = "validator" -> {validator(st, resp).st : resp \in ValidateResponses}
      [] node = "fixer" -> {fixer(st, llm).st : llm \in LLMResponses}
      [] node = "poster" -> {poster(st, resp).st : resp \in PostResponses}
      [] node = "logger" -> {logger_node(st).st}

\* C23: a failed audit append never blocks or changes the run: every step,
\* also one whose append the database failed, ends with a state the node
\* returns and goes to the node the edges choose for that state, and a failed
\* append leaves the rows already written alone.
C23_AuditFailureNonFatal ==
    [][(pc \in Nodes /\ hist' # hist) =>
          /\ state' \in NodeOutputs(pc, state)
          /\ pc' = create_graph(pc, state')
          /\ (hist'.appends > hist.appends /\ Len(audit_log') = Len(audit_log)) =>
                audit_log' = audit_log]_vars

\* a run that lost an audit record and still submitted and returned success
C23_Witness ==
    /\ pc = "returned"
    /\ Dropped = 1
    /\ GetSuccess(state.posting_result)
    /\ result.success
    /\ hist.calls["logger"] = 1

\* the request of the call was sent and failed: it raised, or was answered
\* with a status other than 200
RequestFailed ==
    /\ call.done
    /\ call.out.requests > 0
    /\ call.resp.exc \/ call.resp.status # 200

\* C24: validate_fhir never raises and sends at most one request; when the
\* request raises or is answered with a status other than 200, the result is
\* valid = false with exactly one error, which names the failure.
C24_ValidateNeverRaises ==
    call.done =>
        /\ ~call.out.raised
        /\ call.out.result.set
        /\ call.out.requests <= 1
        /\ RequestFailed =>
              /\ ~GetValid(call.out.result)
              /\ Len(GetErrors(call.out.result)) = 1
              /\ GetErrors(call.out.result)[1] =
                    IF call.resp.exc THEN "transport error" ELSE "HTTP error"

\* an answer 201 to $validate came back as one HTTP error
C24_Witness ==
    /\ RequestFailed
    /\ call.resp.status = 201
    /\ call.out.result = Invalid(<<"HTTP error">>)

\* the call was answered 200 with an OperationOutcome
AnsweredOutcome ==
    /\ call.done
    /\ call.out.requests = 1
    /\ ~call.resp.exc
    /\ call.resp.status = 200
    /\ call.resp.rtype = "OperationOutcome"

IsFailure(issue) == issue.severity \in {"error", "fatal"}

\* C30: for a ServiceRequest answered 200 with an OperationOutcome,
\* validate_fhir returns valid = true with no errors exactly when no issue has
\* severity error or fatal; otherwise valid = false with one error for each
\* error or fatal issue, in the order of the issues, and nothing for an issue
\* of another severity.
C30_ValidateOutcome ==
    AnsweredOutcome =>
        LET failures == SelectSeq(call.resp.issues, IsFailure)
            errors == GetErrors(call.out.result)
        IN  /\ call.out.result.set
            /\ GetValid(call.out.result) <=> failures = <<>>
            /\ Len(errors) = Len(failures)
            /\ \A k \in DOMAIN failures :
                  errors[k] = IF failures[k].diagnostics = "absent"
                              THEN "Unknown error"
                              ELSE failures[k].diagnostics

\* an error, a warning and a fatal issue: two errors, in that order
C30_Witness ==
    /\ AnsweredOutcome
    /\ Len(call.resp.issues) = 3
    /\ call.resp.issues[2].severity = "warning"
    /\ call.out.result = Invalid(<<"d1", "d2">>)

\* C25: generator does not change its inputs: pdf_data and empi_data of the
\* state are the same after the step as before it, whether it succeeded or not.
C25_GeneratorKeepsInputs ==
    [][pc = "generator" =>
          (state'.pdf_data = state.pdf_data /\ state'.empi_data = state.empi_data)]_vars

\* C26: fixer invoked with an empty error list is a no-op: the state after
\* the step equals the state before it (draft_json, final_json and
\* retry_count unchanged).
C26_FixerNoopOnNoErrors ==
    [][(pc = "fixer_call" /\ GetErrors(state.validation_result) = <<>>) =>
          state' = state]_vars

\* C27: after a crash in the middle of a run, invoking the run again with the
\* same identifier resumes from the last recorded state: it continues with
\* the node that was in progress, on the state the completed nodes left.
C27_ResumeAfterCrash ==
    [][pc = "crashed" =>
          (state' = state /\ pc' = create_graph(hist.last, state))]_vars

\* rows of the audit log that run r wrote
RowsOfRun(r) ==
    Cardinality({i \in DOMAIN hist.accepted : hist.accepted[i].run = r})

\* C28 as stated: with runs appending concurrently no record is lost: every
\* append of a run has its record in the store.
C28_NoRecordLostOriginal ==
    \A r \in Runs : RowsOfRun(r) = hist.appends[r]

\* C28 amended: every append is atomic: the store holds exactly the records
\* of the appends the database accepted, each whole and none overwritten by
\* another run, an append the database failed adds nothing, and the records
\* of one run are in the order of its steps.
C28_AppendsAtomicInOrder ==
    /\ Len(audit_log) = Len(hist.accepted)
    /\ \A i \in DOMAIN hist.accepted : audit_log[i] = hist.accepted[i].rec
    /\ \A r \in Runs : RowsOfRun(r) <= hist.appends[r]
    /\ \A i, j \in DOMAIN hist.accepted :
          (i < j /\ hist.accepted[i].run = hist.accepted[j].run) =>
              hist.accepted[i].k < hist.accepted[j].k

\* the rows of the two runs alternate and one append was lost
C28_Witness ==
    /\ Len(hist.accepted) >= 4
    /\ hist.accepted[1].run = "r1"
    /\ hist.accepted[2].run = "r2"
    /\ hist.accepted[3].run = "r1"
    /\ hist.accepted[4].run = "r2"
    /\ hist.appends["r1"] + hist.appends["r2"] > Len(audit_log)

\* the document is missing or its text could not be extracted
ExtractionFailed ==
    hist.document.seen /\ ~(hist.document.exists /\ hist.document.extracted)

\* C29: when the document does not exist or the extraction fails, the run
\* never starts: no node executes, no audit record is written or attempted,
\* and process_referral returns a failure.
C29_NoRunWithoutExtraction ==
    ExtractionFailed =>
        /\ pc = "returned"
        /\ Executions = 0
        /\ state = initial_state([id |-> "none", reference |-> "none"])
        /\ hist.appends = 0
        /\ audit_log = <<>>
        /\ result.returned
        /\ ~result.success
        /\ result.error # ""

\* the document exists and the extraction service reported a failure
C29_Witness ==
    /\ hist.document.seen
    /\ hist.document.exists
    /\ ~hist.document.extracted
    /\ pc = "returned"
    /\ main(result) = 1

\* C31: post_fhir never raises; it returns success = true, with resource_id
\* the id of the response body, exactly when the endpoint answers 200 or 201,
\* and success = false with an error for every other status and for an
\* exception of the request.
C31_SubmitResult ==
    call.done =>
        LET accepted == ~call.resp.exc /\ call.resp.status \in {200, 201}
            out == call.out.result
        IN  /\ ~call.out.raised
            /\ out.set
            /\ GetSuccess(out) <=> accepted
            /\ accepted => out.resource_id = call.resp.id
            /\ ~accepted => (~out.success /\ out.error)

\* C33: error_message is sticky: once a step has set it no later step clears
\* it, and process_referral returns success = true exactly when the workflow
\* ended without an exception on a state whose error_message is empty; so a
\* run in which error_message was set returns success = false.
C33_ErrorMessageSticky ==
    [][/\ state.error_message # "" => state'.error_message # ""
       /\ pc' = "returned" =>
            (result'.success <=> (pc = "END" /\ state.error_message = ""))]_vars

\* generator failed, the repair was accepted and submitted, and the run is
\* still reported as failed
C33_Witness ==
    /\ pc = "returned"
    /\ ~hist.gen.ok
    /\ state.error_message # ""
    /\ GetSuccess(state.posting_result)
    /\ ~result.success
    /\ result.error = state.error_message

\* the rows of successful repairs, in the order they were written
RepairRows ==
    SelectSeq(audit_log, LAMBDA row : row.operation = "fixer" /\ row.success)

\* C34: retry_count is the number of fixer executions that returned a repair
\* for a non-empty error list: executions that raised or found no errors do
\* not count; and the record of a fixer execution carries the retry_count
\* from before the increment, so the successful repairs are numbered from 0
\* and a failed one carries the count it left unchanged.
C34_RetryCountCountsRepairs ==
    /\ state.retry_count =
          hist.calls["fixer"] - hist.fixer_raised - hist.fixer_noop
    /\ \A i \in DOMAIN audit_log :
          audit_log[i].operation = "fixer" =>
              /\ audit_log[i].retry_count <= state.retry_count
              /\ audit_log[i].success => audit_log[i].retry_count < state.retry_count
    /\ \A i, j \in DOMAIN RepairRows :
          i < j => RepairRows[i].retry_count < RepairRows[j].retry_count
    /\ Dropped = 0 =>
          /\ Len(RepairRows) = state.retry_count
          /\ \A k \in DOMAIN RepairRows : RepairRows[k].retry_count = k - 1
          /\ \A i \in DOMAIN audit_log :
                (audit_log[i].operation = "fixer" /\ ~audit_log[i].success) =>
                    audit_log[i].retry_count =
                        Cardinality({j \in 1 .. i - 1 :
                                        /\ audit_log[j].operation = "fixer"
                                        /\ audit_log[j].success})

\* two repairs and one repair attempt that raised, all on record
C34_Witness ==
    /\ state.retry_count = 2
    /\ hist.fixer_raised = 1
    /\ hist.calls["fixer"] = 3
    /\ Dropped = 0
    /\ Rows("fixer") = 3
    /\ Len(RepairRows) = 2

\* isinstance(e, str) of an entry of errors: "null" stands for None
IsString(e) == e # "null"

\* C35: every result of validate_fhir has valid = true exactly when errors
\* is empty; an invalid result carries at least one error, each a string, so
\* fixer run on it never takes the empty-errors return.
C35_ValidIffNoErrors ==
    call.done =>
        LET out == call.out.result
            errors == GetErrors(out)
            st == [initial_state([id |-> "none", reference |-> "none"]) EXCEPT
                     !.draft_json = call.resource_json,
                     !.validation_result = out]
        IN  /\ out.set
            /\ GetValid(out) <=> errors = <<>>
            /\ ~GetValid(out) =>
                  /\ Len(errors) >= 1
                  /\ \A k \in DOMAIN errors : IsString(errors[k])
                  /\ \A llm \in LLMResponses : fixer(st, llm).rec # NoRecord

====
